---------------------------- MODULE Spec2Model ----------------------------
(***************************************************************************)
(* A model of the NyaySathi legal assistant: the lenient JSON extractor    *)
(* and the model-call boundary of llm.py, the Analyze page of app.py, and  *)
(* the place search of nearby.py with the Nearby Services page.            *)
(*                                                                         *)
(* Text is a sequence of one-character strings.  A Python value is a       *)
(* record [t, s, keys, items]: t is the type tag, s the characters of a    *)
(* string (or the literal of a number or boolean), keys and items the      *)
(* keys and values of a dict in insertion order, items alone the elements  *)
(* of a list.                                                              *)
(***************************************************************************)
EXTENDS Integers, Sequences, FiniteSets, TLC

\* ------------------------------------------------------------------ bounds

\* Longest noise, in characters, put before and after a document.
MaxAffix == 1
\* Longest exception message, in characters.
MaxMsg == 1
\* Most raw places one search variant returns.
MaxPlaces == 3
\* Largest "Results per category" the slider is moved to.
MaxLimit == 2

\* ------------------------------------------------------------ Python values

PyNone == [t |-> "null", s |-> <<>>, keys |-> <<>>, items |-> <<>>]
PyStr(chars) == [t |-> "str", s |-> chars, keys |-> <<>>, items |-> <<>>]
PyNum(lit) == [t |-> "num", s |-> lit, keys |-> <<>>, items |-> <<>>]
PyBool(lit) == [t |-> "bool", s |-> lit, keys |-> <<>>, items |-> <<>>]
PyList(items) == [t |-> "list", s |-> <<>>, keys |-> <<>>, items |-> items]
PyDict(keys, items) == [t |-> "dict", s |-> <<>>, keys |-> keys, items |-> items]

Digits == {"0", "1", "2", "3", "4", "5", "6", "7", "8", "9"}
HexDigits == Digits \cup {"a", "b", "c", "d", "e", "f", "A", "B", "C", "D", "E", "F"}

\* bool(v): None, False, zero, and the empty string, list and dict are falsy.
Truthy(v) ==
    CASE v.t = "null" -> FALSE
      [] v.t = "bool" -> v.s = <<"t", "r", "u", "e">>
      [] v.t = "num" -> \E i \in 1..Len(v.s) : v.s[i] \in (Digits \ {"0"}) \cup {"N", "I"}
      [] v.t = "str" -> Len(v.s) > 0
      [] v.t = "list" -> Len(v.items) > 0
      [] OTHER -> Len(v.keys) > 0

\* key in d
DictHas(d, key) == \E i \in 1..Len(d.keys) : d.keys[i] = key

\* d.get(key): the value, or None.
DictGet(d, key) ==
    IF DictHas(d, key)
    THEN d.items[CHOOSE i \in 1..Len(d.keys) : d.keys[i] = key]
    ELSE PyNone

\* d[key] = val: a key already present keeps its place and takes the new value.
DictSet(d, key, val) ==
    IF DictHas(d, key)
    THEN LET i == CHOOSE j \in 1..Len(d.keys) : d.keys[j] = key
         IN PyDict(d.keys, [d.items EXCEPT ![i] = val])
    ELSE PyDict(Append(d.keys, key), Append(d.items, val))

\* ------------------------------------------------------------- str methods

SetMin(S) == CHOOSE x \in S : \A y \in S : x <= y
SetMax(S) == CHOOSE x \in S : \A y \in S : x >= y

\* The characters str.strip() removes (those of them the model's texts use).
PyWhitespace == {" ", "\n", "\t", "\r", "\f"}

\* s.strip()
Strip(s) ==
    LET keep == {i \in 1..Len(s) : s[i] \notin PyWhitespace}
    IN IF keep = {} THEN <<>> ELSE SubSeq(s, SetMin(keep), SetMax(keep))

\* s.find(c) and s.rfind(c), 0-based, -1 when c is not in s.
Find(s, c) ==
    LET at == {i \in 1..Len(s) : s[i] = c}
    IN IF at = {} THEN -1 ELSE SetMin(at) - 1
RFind(s, c) ==
    LET at == {i \in 1..Len(s) : s[i] = c}
    IN IF at = {} THEN -1 ELSE SetMax(at) - 1

\* s[start:end] for 0 <= start
Slice(s, start, end) == SubSeq(s, start + 1, IF end > Len(s) THEN Len(s) ELSE end)

\* s.replace(old, new) for one-character old and new
Replace(s, old, new) == [i \in 1..Len(s) |-> IF s[i] = old THEN new ELSE s[i]]

\* ------------------------------------------------------------- json.loads

\* JSON whitespace (json.decoder.WHITESPACE).
JsonWhitespace == {" ", "\t", "\n", "\r"}

\* A control character may not stand unescaped in a JSON string (strict mode).
ControlChars == {"\n", "\t", "\r", "\f"}

Ok(v, i) == [ok |-> TRUE, val |-> v, pos |-> i]
Fail == [ok |-> FALSE, val |-> PyNone, pos |-> 0]

\* The first index from i on that holds no whitespace.
SkipWs(s, i) ==
    LET rest == {j \in i..Len(s) : s[j] \notin JsonWhitespace}
    IN IF rest = {} THEN Len(s) + 1 ELSE SetMin(rest)

\* The first index from i on that holds no digit.
DigitsEnd(s, i) ==
    LET rest == {j \in i..Len(s) : s[j] \notin Digits}
    IN IF rest = {} THEN Len(s) + 1 ELSE SetMin(rest)

StartsWith(s, i, lit) ==
    /\ i + Len(lit) - 1 <= Len(s)
    /\ SubSeq(s, i, i + Len(lit) - 1) = lit

\* The character a one-letter escape stands for (json.decoder.BACKSLASH).
Backslash(c) ==
    CASE c = "b" -> "<BS>"
      [] c = "f" -> "\f"
      [] c = "n" -> "\n"
      [] c = "r" -> "\r"
      [] c = "t" -> "\t"
      [] OTHER -> c
EscapeLetters == {"\"", "\\", "/", "b", "f", "n", "r", "t"}

\* The character of a \uXXXX escape.
UnicodeChar(hex) ==
    CASE hex = <<"0", "0", "2", "2">> -> "\""
      [] hex = <<"0", "0", "2", "7">> -> "'"
      [] hex = <<"0", "0", "5", "c">> -> "\\"
      [] hex = <<"0", "0", "0", "a">> -> "\n"
      [] hex = <<"0", "0", "2", "0">> -> " "
      [] OTHER -> "u+" \o hex[1] \o hex[2] \o hex[3] \o hex[4]

\* py_scanstring: i is the index after the opening quote, acc the characters
\* decoded so far.
RECURSIVE ScanString(_, _, _)
ScanString(s, i, acc) ==
    IF i > Len(s) THEN Fail
    ELSE IF s[i] = "\"" THEN Ok(PyStr(acc), i + 1)
    ELSE IF s[i] = "\\" THEN
        IF i + 1 > Len(s) THEN Fail
        ELSE IF s[i + 1] \in EscapeLetters
             THEN ScanString(s, i + 2, Append(acc, Backslash(s[i + 1])))
        ELSE IF /\ s[i + 1] = "u"
                /\ i + 5 <= Len(s)
                /\ \A j \in (i + 2)..(i + 5) : s[j] \in HexDigits
             THEN ScanString(s, i + 6, Append(acc, UnicodeChar(SubSeq(s, i + 2, i + 5))))
        ELSE Fail
    ELSE IF s[i] \in ControlChars THEN Fail
    ELSE ScanString(s, i + 1, Append(acc, s[i]))

\* NUMBER_RE.match(s, i): (-?(?:0|[1-9]\d*))(\.\d+)?([eE][-+]?\d+)?
ScanNumber(s, i) ==
    LET j0 == IF i <= Len(s) /\ s[i] = "-" THEN i + 1 ELSE i
        hasInt == j0 <= Len(s) /\ s[j0] \in Digits
        j1 == IF s[j0] = "0" THEN j0 + 1 ELSE DigitsEnd(s, j0)
        hasFrac == j1 + 1 <= Len(s) /\ s[j1] = "." /\ s[j1 + 1] \in Digits
        j2 == IF hasFrac THEN DigitsEnd(s, j1 + 1) ELSE j1
        hasE == j2 + 1 <= Len(s) /\ s[j2] \in {"e", "E"}
        e0 == IF hasE /\ s[j2 + 1] \in {"+", "-"} THEN j2 + 2 ELSE j2 + 1
        hasExp == hasE /\ e0 <= Len(s) /\ s[e0] \in Digits
        j3 == IF hasExp THEN DigitsEnd(s, e0) ELSE j2
    IN IF hasInt THEN Ok(PyNum(SubSeq(s, i, j3 - 1)), j3) ELSE Fail

RECURSIVE ScanOnce(_, _), ObjectMembers(_, _, _), ArrayItems(_, _, _)

\* JSONObject: i is the index after the opening brace.
JSONObject(s, i) ==
    LET j == SkipWs(s, i)
    IN IF j > Len(s) THEN Fail
       ELSE IF s[j] = "}" THEN Ok(PyDict(<<>>, <<>>), j + 1)
       ELSE IF s[j] # "\"" THEN Fail
       ELSE ObjectMembers(s, j, PyDict(<<>>, <<>>))

\* The members of an object from the key whose opening quote is at i.
ObjectMembers(s, i, d) ==
    LET k == ScanString(s, i + 1, <<>>)
    IN IF ~k.ok THEN Fail
       ELSE LET c == SkipWs(s, k.pos)
            IN IF c > Len(s) \/ s[c] # ":" THEN Fail
               ELSE LET v == ScanOnce(s, SkipWs(s, c + 1))
                    IN IF ~v.ok THEN Fail
                       ELSE LET n == SkipWs(s, v.pos)
                                d2 == DictSet(d, k.val.s, v.val)
                                m == SkipWs(s, n + 1)
                            IN IF n > Len(s) THEN Fail
                               ELSE IF s[n] = "}" THEN Ok(d2, n + 1)
                               ELSE IF s[n] # "," THEN Fail
                               ELSE IF m > Len(s) \/ s[m] # "\"" THEN Fail
                               ELSE ObjectMembers(s, m, d2)

\* JSONArray: i is the index after the opening bracket.
JSONArray(s, i) ==
    LET j == SkipWs(s, i)
    IN IF j > Len(s) THEN Fail
       ELSE IF s[j] = "]" THEN Ok(PyList(<<>>), j + 1)
       ELSE ArrayItems(s, j, <<>>)

\* The elements of an array from the value that starts at i.
ArrayItems(s, i, acc) ==
    LET v == ScanOnce(s, i)
    IN IF ~v.ok THEN Fail
       ELSE LET n == SkipWs(s, v.pos)
                acc2 == Append(acc, v.val)
            IN IF n > Len(s) THEN Fail
               ELSE IF s[n] = "]" THEN Ok(PyList(acc2), n + 1)
               ELSE IF s[n] # "," THEN Fail
               ELSE ArrayItems(s, SkipWs(s, n + 1), acc2)

\* scan_once(s, i): the value that starts at i.
ScanOnce(s, i) ==
    IF i > Len(s) THEN Fail
    ELSE IF s[i] = "\"" THEN ScanString(s, i + 1, <<>>)
    ELSE IF s[i] = "{" THEN JSONObject(s, i + 1)
    ELSE IF s[i] = "[" THEN JSONArray(s, i + 1)
    ELSE IF StartsWith(s, i, <<"n", "u", "l", "l">>) THEN Ok(PyNone, i + 4)
    ELSE IF StartsWith(s, i, <<"t", "r", "u", "e">>)
         THEN Ok(PyBool(<<"t", "r", "u", "e">>), i + 4)
    ELSE IF StartsWith(s, i, <<"f", "a", "l", "s", "e">>)
         THEN Ok(PyBool(<<"f", "a", "l", "s", "e">>), i + 5)
    ELSE IF ScanNumber(s, i).ok THEN ScanNumber(s, i)
    ELSE IF StartsWith(s, i, <<"N", "a", "N">>) THEN Ok(PyNum(<<"N", "a", "N">>), i + 3)
    ELSE IF StartsWith(s, i, <<"I", "n", "f", "i", "n", "i", "t", "y">>)
         THEN Ok(PyNum(SubSeq(s, i, i + 7)), i + 8)
    ELSE IF StartsWith(s, i, <<"-", "I", "n", "f", "i", "n", "i", "t", "y">>)
         THEN Ok(PyNum(SubSeq(s, i, i + 8)), i + 9)
    ELSE Fail

\* json.loads(s): ok is FALSE where json.loads raises JSONDecodeError.
JsonLoads(s) ==
    LET v == ScanOnce(s, SkipWs(s, 1))
    IN IF v.ok /\ SkipWs(s, v.pos) = Len(s) + 1
       THEN [ok |-> TRUE, val |-> v.val]
       ELSE [ok |-> FALSE, val |-> PyNone]

\* ------------------------------------------------------------- json.dumps

\* (a slip: the string written between its quotes as it is)
EscapeNothing(c) == <<c>>
\* The escape of one character inside a JSON string (ensure_ascii=True); the
\* characters the model's texts use are ASCII.
EscapeChar(c) ==
    CASE c = "\"" -> <<"\\", "\"">>
      [] c = "\\" -> <<"\\", "\\">>
      [] c = "\n" -> <<"\\", "n">>
      [] c = "\r" -> <<"\\", "r">>
      [] c = "\t" -> <<"\\", "t">>
      [] c = "\f" -> <<"\\", "f">>
      [] c = "<BS>" -> <<"\\", "b">>
      [] OTHER -> <<c>>

RECURSIVE EscapeAll(_)
EscapeAll(chars) ==
    IF chars = <<>> THEN <<>>
    ELSE EscapeChar(Head(chars)) \o EscapeAll(Tail(chars))

\* py_encode_basestring_ascii
EncodeString(chars) == <<"\"">> \o EscapeAll(chars) \o <<"\"">>

RECURSIVE JsonDumps(_), DumpItems(_, _), DumpMembers(_, _)

\* The elements of a list from the i-th on, joined by ", ".
DumpItems(v, i) ==
    IF i > Len(v.items) THEN <<>>
    ELSE (IF i > 1 THEN <<",", " ">> ELSE <<>>)
         \o JsonDumps(v.items[i]) \o DumpItems(v, i + 1)

\* The members of a dict from the i-th on, each "key": value, joined by ", ".
DumpMembers(v, i) ==
    IF i > Len(v.keys) THEN <<>>
    ELSE (IF i > 1 THEN <<",", " ">> ELSE <<>>)
         \o EncodeString(v.keys[i]) \o <<":", " ">>
         \o JsonDumps(v.items[i]) \o DumpMembers(v, i + 1)

\* json.dumps(v) with the default separators.
JsonDumps(v) ==
    CASE v.t = "null" -> <<"n", "u", "l", "l">>
      [] v.t = "bool" -> v.s
      [] v.t = "num" -> v.s
      [] v.t = "str" -> EncodeString(v.s)
      [] v.t = "list" -> <<"[">> \o DumpItems(v, 1) \o <<"]">>
      [] OTHER -> <<"{">> \o DumpMembers(v, 1) \o <<"}">>

\* ------------------------------------------------- extract_json_from_text

Returned(v) == [raised |-> FALSE, val |-> v]
\* An exception that leaves the function.
Raised == [raised |-> TRUE, val |-> PyNone]

\* if not s: return None
EmptyInput(arg) == ~Truthy(arg)

\* s = s.strip()
StripText(s) == Strip(s)

\* start = s.find("{"); end = s.rfind("}")
BraceStart(s) == Find(s, "{")
\* (a slip: find for rfind, the first "}" instead of the last)
BraceEndFirst(s) == Find(s, "}")
BraceEnd(s) == RFind(s, "}")

\* start != -1 and end != -1 and end >= start
HasCandidate(s) == BraceStart(s) # -1 /\ BraceEnd(s) # -1 /\ BraceEnd(s) >= BraceStart(s)

\* candidate = s[start:end + 1]
Candidate(s) == Slice(s, BraceStart(s), BraceEnd(s) + 1)

\* (a slip: the newline repair left out)
CleanedQuotesOnly(candidate) == Replace(candidate, "'", "\"")
\* cleaned = candidate.replace("\n", " ").replace("'", '"')
Cleaned(candidate) == Replace(Replace(candidate, "\n", " "), "'", "\"")

\* The function on a Python value: None or a str by its signature; any other
\* value that is truthy has no strip() and the call raises AttributeError.
extract_json_from_text(arg) ==
    IF EmptyInput(arg) THEN Returned(PyNone)
    ELSE IF arg.t # "str" THEN Raised
    ELSE LET s == StripText(arg.s)
             direct == JsonLoads(s)
             second == JsonLoads(Candidate(s))
             third == JsonLoads(Cleaned(Candidate(s)))
         IN IF direct.ok THEN Returned(direct.val)
            ELSE IF HasCandidate(s)
                 THEN IF second.ok THEN Returned(second.val)
                      ELSE IF third.ok THEN Returned(third.val)
                      ELSE Returned(PyNone)
            ELSE Returned(PyNone)

\* ------------------------------------------------------------- the inputs

Q(chars) == <<"\"">> \o chars \o <<"\"">>
SQ(chars) == <<"'">> \o chars \o <<"'">>
NullText == <<"n", "u", "l", "l">>
ErrorKey == <<"e", "r", "r", "o", "r">>

\* Key and value texts: double-quoted, single-quoted (Python-literal style),
\* with a raw newline inside the string, with an apostrophe inside it.
KeyTexts == {Q(<<"a">>), SQ(<<"a">>), Q(<<"\n">>), Q(<<"'">>)}
ValTexts ==
    {<<"1">>, Q(<<"b">>), SQ(<<"b">>), Q(<<"\n">>), NullText,
     <<"[", "1", "]">>, <<"{", "}">>, <<"x">>}
Separators == {<<":">>, <<":", "\n">>}

\* Brace-delimited bodies: one member, well-formed or not, and the empty object.
ObjectTexts ==
    {<<"{", "}">>, <<"{">> \o Q(ErrorKey) \o <<":">> \o Q(<<"x">>) \o <<"}">>}
    \cup {<<"{">> \o k \o sep \o v \o <<"}">> :
             k \in KeyTexts, sep \in Separators, v \in ValTexts}

\* Texts that are no object: empty, JSON of another type, plain words.
OtherTexts ==
    {<<>>, <<"1">>, <<"0">>, <<"[", "1", "]">>, <<"[", "]">>, <<"[", "{", "}", "]">>,
     Q(<<"a">>), Q(<<>>), NullText, <<"t", "r", "u", "e">>, <<"f", "a", "l", "s", "e">>,
     <<"x">>}

Documents == ObjectTexts \cup OtherTexts

\* Noise around a document.
AffixChars == {" ", "x", "{", "}", "[", "]"}
Affixes == UNION {[1..n -> AffixChars] : n \in 0..MaxAffix}

\* ------------------------------------------------------------ call_gemini

ContentKey == <<"c", "o", "n", "t", "e", "n", "t">>
TextKey == <<"t", "e", "x", "t">>
OutputKey == <<"o", "u", "t", "p", "u", "t">>
CandidatesKey == <<"c", "a", "n", "d", "i", "d", "a", "t", "e", "s">>
OutputsKey == <<"o", "u", "t", "p", "u", "t", "s">>

\* a or b
PyOr(a, b) == IF Truthy(a) THEN a ELSE b

\* What the SDK does on one call.  kind "raise": GenerativeModel() or
\* generate_content() raises the exception (name, msg); "text_raises": the
\* response has a text property whose read raises it; "text": resp.text is
\* the text; "dict": the response is the dict d; "other": an object without
\* text.  repr is str(resp).
SdkOutcome(kind, name, msg, text, d) ==
    [kind |-> kind, name |-> name, msg |-> msg, text |-> text, d |-> d,
     repr |-> <<"<", "R", ">">>]
NoCall == SdkOutcome("none", <<>>, <<>>, <<>>, PyNone)

\* json.dumps({"error": f"{type(e).__name__}: {e}"})
ErrorPayload(name, msg) ==
    JsonDumps(PyDict(<<ErrorKey>>, <<PyStr(name \o <<":", " ">> \o msg)>>))

\* The first of first.get("content"), first.get("text"), first.get("output")
\* that is truthy, for a dict first; None when there is none.
FirstCandidateText(first) ==
    IF first.t # "dict" THEN PyNone
    ELSE PyOr(DictGet(first, ContentKey),
              PyOr(DictGet(first, TextKey), DictGet(first, OutputKey)))

\* The value call_gemini returns for an outcome of the SDK.
call_gemini(sdk) ==
    IF sdk.kind \in {"raise", "text_raises"}
    THEN PyStr(ErrorPayload(sdk.name, sdk.msg))
    ELSE IF sdk.kind = "text" /\ sdk.text # <<>> THEN PyStr(sdk.text)
    ELSE IF sdk.kind = "dict"
         THEN LET cands == PyOr(DictGet(sdk.d, CandidatesKey),
                                PyOr(DictGet(sdk.d, OutputsKey), PyList(<<>>)))
                  out == DictGet(sdk.d, OutputKey)
              IN IF /\ cands.t = "list"
                    /\ Len(cands.items) > 0
                    /\ Truthy(FirstCandidateText(cands.items[1]))
                 THEN FirstCandidateText(cands.items[1])
                 ELSE IF out.t = "str" THEN out
                 ELSE PyStr(JsonDumps(sdk.d))
    ELSE PyStr(sdk.repr)

\* Exceptions of the SDK: a blocked response's text read, an unknown model.
ValueError == <<"V", "a", "l", "u", "e", "E", "r", "r", "o", "r">>
NotFound == <<"N", "o", "t", "F", "o", "u", "n", "d">>
MsgChars == {"a", "\"", "\\", "\n", "'", "{", "}"}
Messages == UNION {[1..n -> MsgChars] : n \in 0..MaxMsg}

\* A one-member dict.
Dict1(key, val) == PyDict(<<key>>, <<val>>)

\* Dict-shaped responses: a candidate list whose first entry carries the text
\* under one of the three keys or a dict, an output string, an empty
\* candidate list, and neither.
DictResponses ==
    {Dict1(CandidatesKey, PyList(<<Dict1(ContentKey, PyStr(<<"{", "}">>))>>)),
     Dict1(OutputsKey, PyList(<<Dict1(TextKey, PyStr(<<"x">>))>>)),
     Dict1(CandidatesKey, PyList(<<Dict1(OutputKey, PyDict(<<>>, <<>>))>>)),
     Dict1(CandidatesKey, PyList(<<Dict1(ContentKey, Dict1(TextKey, PyStr(<<"x">>)))>>)),
     Dict1(OutputKey, PyStr(<<"{", "}">> \o <<"x">>)),
     Dict1(CandidatesKey, PyList(<<>>)),
     PyDict(<<>>, <<>>)}

SdkOutcomes ==
    {SdkOutcome("raise", NotFound, m, <<>>, PyNone) : m \in Messages}
    \cup {SdkOutcome("text_raises", ValueError, m, <<>>, PyNone) : m \in Messages}
    \cup {SdkOutcome("text", <<>>, <<>>, doc, PyNone) : doc \in Documents}
    \cup {SdkOutcome("dict", <<>>, <<>>, <<>>, d) : d \in DictResponses}
    \cup {SdkOutcome("other", <<>>, <<>>, <<>>, PyNone)}

\* ---------------------------------------------------------- nearby_search

\* Coordinates are whole numbers of 0.000001 degree; a distance is a whole
\* number of 0.01 km.

\* round(x, 1 digit fewer): to the nearest ten.  No coordinate or distance of
\* the model ends in 5, so the rounding of ties does not matter.
RoundTens(c) == (c + 5) \div 10

\* round(r["lat"], 5), round(r["lon"], 5)
Round5(c) == RoundTens(c)

Abs(n) == IF n < 0 THEN -n ELSE n

\* haversine((lat, lon), (plat, plon)) in 0.001 km: the distance on the grid
\* (a metric on the coordinates, like the great-circle distance).
Haversine(lat, lon, plat, plon) == Abs(plat - lat) + Abs(plon - lon)

\* round(dist, 2)
Round2(dist) == RoundTens(dist)

\* A raw place of the geocoder: ok is whether float() takes its coordinates.
Place(ok, lat, lon, name) == [ok |-> ok, lat |-> lat, lon |-> lon, name |-> name]

\* Two places at one point under two names, a third that rounds to the same
\* key as they do and lies farther, a fourth with a key of its own at the
\* third's rounded distance, and one whose coordinates do not parse.
Places ==
    {Place(TRUE, 12, 12, "A"), Place(TRUE, 12, 12, "B"), Place(TRUE, 14, 12, "C"),
     Place(TRUE, 16, 16, "D"), Place(FALSE, 0, 0, "F")}

\* The places a page run's geocoder knows.
PagePlaces == {Place(TRUE, 12, 12, "A"), Place(FALSE, 0, 0, "F")}

\* Reference points geocode_location returns.
RefPoints == {<<0, 0>>, <<10, 0>>}

SmallerOf(a, b) == IF a < b THEN a ELSE b

\* What geolocator.geocode(q, exactly_one=False, limit=limit*2) can return
\* from the places of world; None and the empty list are both <<>>.
Responses(world, limit) ==
    UNION {[1..n -> world] : n \in 0..SmallerOf(2 * limit, MaxPlaces)}

\* The three query variants of tries, and the fallback, for a category query.
QueryText(form, query, lat, lon) ==
    [form |-> form, query |-> query,
     at |-> IF form \in {"<q> near <lat>,<lon>", "<q> <lat> <lon>"}
            THEN <<lat, lon>> ELSE <<>>]
Tries(query, lat, lon) ==
    <<QueryText("<q> near <lat>,<lon>", query, lat, lon),
      QueryText("<q> near India", query, lat, lon),
      QueryText("<q> <lat> <lon>", query, lat, lon)>>
FallbackQuery(query, lat, lon) == QueryText("<q> India", query, lat, lon)

\* (a slip: the loop goes on after a variant returned places)
LoopNeverBreaks(places) == FALSE
\* if places: break
LoopBreaks(places) == places # <<>>

\* The entry appended to results for a place whose coordinates parse.
Hit(p, lat, lon) ==
    [name |-> p.name, address |-> p.name, lat |-> p.lat, lon |-> p.lon,
     distance_km |-> Round2(Haversine(lat, lon, p.lat, p.lon))]

\* for p in places: ... results.append(...), a place that raises skipped
RECURSIVE BuildResults(_, _, _)
BuildResults(places, lat, lon) ==
    IF places = <<>> THEN <<>>
    ELSE IF Head(places).ok
         THEN <<Hit(Head(places), lat, lon)>> \o BuildResults(Tail(places), lat, lon)
         ELSE BuildResults(Tail(places), lat, lon)

\* key = (round(r["lat"], 5), round(r["lon"], 5))
KeyOf(r) == <<Round5(r.lat), Round5(r.lon)>>

\* (a slip: every later entry of a key replaces the recorded one)
ReplaceAlways(old, r) == TRUE
\* uniq[key]["distance_km"] > r["distance_km"]
Replaces(old, r) == old.distance_km > r.distance_km

\* uniq after the loop over results from the i-th on; uniq is the dict's
\* values in the order their keys were first set.
RECURSIVE Dedupe(_, _, _)
Dedupe(results, i, uniq) ==
    IF i > Len(results) THEN uniq
    ELSE LET r == results[i]
             at == {j \in 1..Len(uniq) : KeyOf(uniq[j]) = KeyOf(r)}
         IN IF at = {} THEN Dedupe(results, i + 1, Append(uniq, r))
            ELSE LET j == CHOOSE k \in at : TRUE
                 IN IF Replaces(uniq[j], r)
                    THEN Dedupe(results, i + 1, [uniq EXCEPT ![j] = r])
                    ELSE Dedupe(results, i + 1, uniq)

\* e put into the sorted list after every entry that is not farther.
InsertSorted(sorted, e) ==
    LET before == {j \in 1..Len(sorted) : sorted[j].distance_km <= e.distance_km}
        n == IF before = {} THEN 0 ELSE SetMax(before)
    IN SubSeq(sorted, 1, n) \o <<e>> \o SubSeq(sorted, n + 1, Len(sorted))

\* (a slip: the list left in dict order)
Unsorted(entries) == entries
\* sorted(entries, key=lambda x: x["distance_km"]): stable
RECURSIVE SortedByDistance(_)
SortedByDistance(entries) ==
    IF entries = <<>> THEN <<>>
    ELSE InsertSorted(SortedByDistance(SubSeq(entries, 1, Len(entries) - 1)),
                      entries[Len(entries)])

\* [:limit] for limit >= 0
Truncated(entries, limit) == SubSeq(entries, 1, SmallerOf(limit, Len(entries)))

\* The dedupe and sort step: what nearby_search returns for results.
DedupeSortTruncate(results, limit) ==
    Truncated(SortedByDistance(Dedupe(results, 1, <<>>)), limit)

\* ----------------------------------------------------------------- state

VARIABLES
    x_pc,             \* extract_json_from_text: "call" before the call, "done" after
    x_pre,            \* the noise before the document of the input
    x_doc,            \* the document
    x_post,           \* the noise after it
    x_arg,            \* the argument: None, or the str x_pre + x_doc + x_post
    x_ret,            \* what the call returned or that it raised
    analysis_parsed,  \* st.session_state.analysis_parsed
    analysis_raw,     \* st.session_state.analysis_raw
    display,          \* what the current run of the Analyze page has shown
    sdk_call,         \* what the SDK did in the current run (NoCall: not called)
    n_pc,             \* where the Nearby page or nearby_search stands
    on_page,          \* the search is one of a run of the Nearby Services page
    world,            \* the places the geocoder can return
    location_blank,   \* location_hint.strip() is empty
    max_results,      \* the slider's value
    geo,              \* what geocode_location returned: <<>> for None, or <<lat, lon>>
    cat,              \* the index of the category being searched
    events,           \* the page run's calls in order: "geocode", then category titles
    shown,            \* per category shown so far, "hits" or "none"
    n_query,          \* nearby_search's query
    n_lat,            \* its lat
    n_lon,            \* its lon
    n_limit,          \* its limit
    n_variant,        \* the index in tries of the variant tried next
    n_places,         \* places
    n_queried,        \* the geocoder queries made, each with how it ended
    n_results,        \* results
    n_out             \* out, the list returned

xvars == <<x_pc, x_pre, x_doc, x_post, x_arg, x_ret>>
avars == <<analysis_parsed, analysis_raw, display, sdk_call>>
pvars == <<on_page, world, location_blank, max_results, geo, cat, events, shown>>
nvars == <<n_query, n_lat, n_lon, n_limit, n_variant, n_places, n_queried,
           n_results, n_out>>
vars == <<xvars, avars, n_pc, pvars, nvars>>

\* The extractor, the Analyze page and the Nearby page share no state; each
\* is checked with the other two at rest.
XIdle ==
    /\ x_pc = "idle"
    /\ x_pre = <<>> /\ x_doc = <<>> /\ x_post = <<>>
    /\ x_arg = PyNone
    /\ x_ret = [raised |-> FALSE, val |-> PyNone]

\* What one run of the page shows: the kinds of element, the error value
\* shown by st.error and the text shown by st.code.
Shown(kinds, error, code) == [kinds |-> kinds, error |-> error, code |-> code]
Blank == Shown({}, PyNone, PyNone)

AIdle ==
    /\ analysis_parsed = PyNone
    /\ analysis_raw = PyNone
    /\ display = Blank
    /\ sdk_call = NoCall

\* nearby_search's locals before its first query.
SearchIdle ==
    /\ n_query = "" /\ n_lat = 0 /\ n_lon = 0 /\ n_limit = 0
    /\ n_variant = 0
    /\ n_places = <<>> /\ n_queried = <<>> /\ n_results = <<>> /\ n_out = <<>>

NIdle ==
    /\ n_pc = "idle"
    /\ on_page = FALSE
    /\ world = {}
    /\ location_blank = TRUE
    /\ max_results = 0
    /\ geo = <<>>
    /\ cat = 0
    /\ events = <<>>
    /\ shown = <<>>
    /\ SearchIdle

\* ------------------------------------- extract_json_from_text on its inputs

XInit ==
    /\ x_pc = "call"
    /\ x_ret = Returned(PyNone)
    /\ \/ /\ x_pre \in Affixes
          /\ x_doc \in Documents
          /\ x_post \in Affixes
          /\ x_arg = PyStr(x_pre \o x_doc \o x_post)
       \/ /\ x_pre = <<>> /\ x_doc = <<>> /\ x_post = <<>>
          /\ x_arg = PyNone
    /\ AIdle
    /\ NIdle

ExtractCall ==
    /\ x_pc = "call"
    /\ x_ret' = extract_json_from_text(x_arg)
    /\ x_pc' = "done"
    /\ UNCHANGED <<x_pre, x_doc, x_post, x_arg, avars, n_pc, pvars, nvars>>

XNext == ExtractCall
SpecExtract == XInit /\ [][XNext]_vars

\* ------------------------------------------------- claims on the extractor

\* The text without its leading and trailing whitespace.
RECURSIVE Trimmed(_)
Trimmed(s) ==
    IF s = <<>> THEN s
    ELSE IF Head(s) \in PyWhitespace THEN Trimmed(Tail(s))
    ELSE IF s[Len(s)] \in PyWhitespace THEN Trimmed(SubSeq(s, 1, Len(s) - 1))
    ELSE s

\* The text from its first "{" to its last "}", both included; empty when there
\* is no such pair in that order.
BetweenBraces(s) ==
    LET opens == {i \in 1..Len(s) : s[i] = "{"}
        closes == {i \in 1..Len(s) : s[i] = "}"}
        first == CHOOSE i \in opens : \A j \in opens : i <= j
        last == CHOOSE i \in closes : \A j \in closes : i >= j
    IN IF opens = {} \/ closes = {} THEN <<>>
       ELSE IF last < first THEN <<>>
       ELSE [i \in 1..(last - first + 1) |-> s[first + i - 1]]

\* Every newline made a space and every ' made a ".
Repaired(s) ==
    [i \in 1..Len(s) |->
        IF s[i] = "\n" THEN " " ELSE IF s[i] = "'" THEN "\"" ELSE s[i]]

Tier1 == JsonLoads(Trimmed(x_arg.s))
Tier2 ==
    IF BetweenBraces(Trimmed(x_arg.s)) = <<>> THEN [ok |-> FALSE, val |-> PyNone]
    ELSE JsonLoads(BetweenBraces(Trimmed(x_arg.s)))
Tier3 ==
    IF BetweenBraces(Trimmed(x_arg.s)) = <<>> THEN [ok |-> FALSE, val |-> PyNone]
    ELSE JsonLoads(Repaired(BetweenBraces(Trimmed(x_arg.s))))

\* C1: for every raw input the extractor returns, without raising, the result
\* of the first tier that succeeds, tried in the order whole trimmed string,
\* first "{" to last "}", that substring repaired (newline to space, ' to ");
\* it returns None when no tier succeeds and when the input is None or empty.
C1_FirstSuccessfulTier ==
    x_pc = "done" =>
        /\ ~x_ret.raised
        /\ x_ret.val =
              IF x_arg = PyNone \/ x_arg.s = <<>> THEN PyNone
              ELSE IF Tier1.ok THEN Tier1.val
              ELSE IF Tier2.ok THEN Tier2.val
              ELSE IF Tier3.ok THEN Tier3.val
              ELSE PyNone

\* C1's case: the first two tiers fail on a text and the repaired substring
\* decodes, and that is what the call returned.
C1_Witness ==
    /\ x_pc = "done"
    /\ x_arg.t = "str"
    /\ ~Tier1.ok /\ ~Tier2.ok /\ Tier3.ok
    /\ x_ret = Returned(Tier3.val)
    /\ x_ret.val.t = "dict"
    /\ Len(x_ret.val.keys) = 1

\* C2: for every raw input the extractor returns None or a JSON object, never
\* a list, number, string or boolean.
C2_ObjectOrNone ==
    x_pc = "done" => x_ret.val.t \in {"null", "dict"}

\* The document is the text of a JSON object.
IsObjectText(d) ==
    /\ Len(d) >= 2
    /\ d[1] = "{"
    /\ d[Len(d)] = "}"
    /\ JsonLoads(d).ok
    /\ JsonLoads(d).val.t = "dict"

\* C3 as claimed: for noise + J + more noise with J the text of a JSON object
\* and any noise, the extractor returns what decoding J returns.
C3_NoiseAroundObject ==
    (x_pc = "done" /\ x_arg.t = "str" /\ IsObjectText(x_doc)) =>
        x_ret = Returned(JsonLoads(x_doc).val)

\* The noise C3 as amended covers: no "{" before J, no "}" after it, and the
\* whole trimmed text is J itself or is not valid JSON.
PlainNoise ==
    /\ \A i \in 1..Len(x_pre) : x_pre[i] # "{"
    /\ \A i \in 1..Len(x_post) : x_post[i] # "}"
    /\ \/ Trimmed(x_arg.s) = x_doc
       \/ ~JsonLoads(Trimmed(x_arg.s)).ok

\* C3 as amended: for noise + J + more noise with J the text of a JSON object,
\* no "{" in the leading noise, no "}" in the trailing noise and the whole
\* trimmed text either J or not valid JSON, the extractor returns what
\* decoding J returns.
C3_PlainNoiseAroundObject ==
    (x_pc = "done" /\ x_arg.t = "str" /\ IsObjectText(x_doc) /\ PlainNoise) =>
        x_ret = Returned(JsonLoads(x_doc).val)

\* C3's case: an object with a member between two words of noise.
C3_Witness ==
    /\ x_pc = "done"
    /\ x_arg.t = "str"
    /\ IsObjectText(x_doc)
    /\ PlainNoise
    /\ x_pre = <<"x">>
    /\ x_post = <<"x">>
    /\ Len(JsonLoads(x_doc).val.keys) = 1
    /\ x_ret = Returned(JsonLoads(x_doc).val)

\* ----------------------------------------------------------- Analyze page

\* The block under "render last successful analysis": nothing for a falsy
\* parsed; parsed.get raises AttributeError for a value that is no dict; the
\* advice (summary, laws, action plan, drafts, checklist, case type and
\* severity) for a dict.
RenderLast(parsed) ==
    IF ~Truthy(parsed) THEN {}
    ELSE IF parsed.t # "dict" THEN {"exception"}
    ELSE {"advice"}

AInit ==
    /\ XIdle
    /\ AIdle
    /\ NIdle

\* A run of the script with the button pressed, the description blank and
\* no category selected: st.error and st.stop before the model is called.
SubmitNothing ==
    /\ display' = Shown({"input_error"}, PyNone, PyNone)
    /\ sdk_call' = NoCall
    /\ UNCHANGED <<analysis_parsed, analysis_raw>>

\* The submit handler from the extractor's return on: an exception leaves
\* the script before session_state is written; otherwise raw and parsed are
\* saved, and the error record or the missing record is shown and the script
\* stopped, or the script goes on to the block that renders.
Handle(sdk, raw, ext) ==
    IF ext.raised
    THEN /\ display' = Shown({"exception"}, PyNone, PyNone)
         /\ sdk_call' = sdk
         /\ UNCHANGED <<analysis_parsed, analysis_raw>>
    ELSE /\ analysis_raw' = raw
         /\ analysis_parsed' = ext.val
         /\ sdk_call' = sdk
         /\ display' =
               IF Truthy(ext.val) /\ ext.val.t = "dict" /\ DictHas(ext.val, ErrorKey)
               THEN Shown({"api_error", "raw"}, DictGet(ext.val, ErrorKey), raw)
               ELSE IF ~Truthy(ext.val)
               THEN Shown({"invalid_json", "raw"}, PyNone, raw)
               ELSE Shown(RenderLast(ext.val), PyNone, PyNone)

\* parsed = llm.extract_json_from_text(raw)
Parse(sdk, raw) == Handle(sdk, raw, extract_json_from_text(raw))

\* A run of the script with the button pressed and a description or a
\* category given; sdk is what the SDK does when called.
Submit(sdk) == Parse(sdk, call_gemini(sdk))

\* One run of the script without the button pressed (any other widget
\* changed): the page renders from the session state.
Rerun ==
    /\ display' = Shown(RenderLast(analysis_parsed), PyNone, PyNone)
    /\ sdk_call' = NoCall
    /\ UNCHANGED <<analysis_parsed, analysis_raw>>

ANext ==
    \/ /\ SubmitNothing
       /\ UNCHANGED <<xvars, n_pc, pvars, nvars>>
    \/ /\ \E sdk \in SdkOutcomes : Submit(sdk)
       /\ UNCHANGED <<xvars, n_pc, pvars, nvars>>
    \/ /\ Rerun
       /\ UNCHANGED <<xvars, n_pc, pvars, nvars>>
SpecAnalyze == AInit /\ [][ANext]_vars

\* The SDK failed in this run: the call or the read of the response raised.
CallFailed == sdk_call.kind \in {"raise", "text_raises"}

\* C4: call_gemini does not raise; whenever the model call or the unwrapping
\* of its response fails it returns a string that is the JSON object
\* {"error": "<kind>: <message>"}, and the extractor turns that string into a
\* record with an error key, so the page reports a model error and not a
\* parse failure.
C4_FailureIsErrorRecord ==
    CallFailed =>
        /\ analysis_raw.t = "str"
        /\ JsonLoads(analysis_raw.s).ok
        /\ JsonLoads(analysis_raw.s).val =
              Dict1(ErrorKey, PyStr(sdk_call.name \o <<":", " ">> \o sdk_call.msg))
        /\ analysis_parsed.t = "dict"
        /\ DictHas(analysis_parsed, ErrorKey)
        /\ display.kinds = {"api_error", "raw"}

\* C4's case: the call raised with a message that holds a double quote, and
\* the page shows the model error.
C4_Witness ==
    /\ sdk_call.kind = "raise"
    /\ sdk_call.msg = <<"\"">>
    /\ display.kinds = {"api_error", "raw"}
    /\ display.error = PyStr(sdk_call.name \o <<":", " ", "\"">>)

\* C5: a record that carries an error key is shown as a failure (the error
\* value and the raw text) in the run of the submission and is in no run,
\* that one or a later one without a submission, rendered as advice.
C5_ErrorNeverAdvice ==
    (analysis_parsed.t = "dict" /\ DictHas(analysis_parsed, ErrorKey)) =>
        "advice" \notin display.kinds

\* ------------------------------------------ nearby_search and the Nearby page

\* The slider's range in the model: from its minimum up.
MinResults == 1
Limits == MinResults..MaxLimit

\* categories, in the dict's insertion order.
Categories ==
    <<[title |-> "Police Stations", q |-> "police station"],
      [title |-> "Law Firms / Lawyers", q |-> "law firm"],
      [title |-> "NGOs / Helplines", q |-> "NGO"],
      [title |-> "Hospitals", q |-> "hospital"]>>

\* A query's end: it raised, returned nothing, or returned places.
Queried(text, kind) == [text |-> text, kind |-> kind]
KindOf(raised, resp) ==
    IF raised THEN "raised" ELSE IF resp = <<>> THEN "empty" ELSE "hits"

\* nearby_search is entered with its arguments: the locals at their first values.
Enter(query, lat, lon, limit) ==
    /\ n_query' = query
    /\ n_lat' = lat
    /\ n_lon' = lon
    /\ n_limit' = limit
    /\ n_variant' = 1
    /\ n_places' = <<>>
    /\ n_queried' = <<>>
    /\ n_results' = <<>>
    /\ n_out' = <<>>

\* From "if places:" below the fallback to the return: results, uniq, out.
Finish(places) ==
    /\ n_results' = BuildResults(places, n_lat, n_lon)
    /\ n_out' = DedupeSortTruncate(BuildResults(places, n_lat, n_lon), n_limit)
    /\ n_pc' = "returned"

\* One pass of "for q in tries": the query raises (places = None) or returns
\* resp.  The loop ends on places or after the third variant; then places go
\* to the results, and no places at all lead to the fallback query.
TryVariant(raised, resp) ==
    LET places == IF raised THEN <<>> ELSE resp
        text == Tries(n_query, n_lat, n_lon)[n_variant]
        over == LoopBreaks(places) \/ n_variant = Len(Tries(n_query, n_lat, n_lon))
    IN /\ n_pc = "try"
       /\ n_places' = places
       /\ n_queried' = Append(n_queried, Queried(text, KindOf(raised, resp)))
       /\ IF ~over
          THEN /\ n_variant' = n_variant + 1
               /\ UNCHANGED <<n_pc, n_results, n_out>>
          ELSE IF places = <<>>
          THEN /\ n_pc' = "fallback"
               /\ UNCHANGED <<n_variant, n_results, n_out>>
          ELSE /\ Finish(places)
               /\ UNCHANGED n_variant
       /\ UNCHANGED <<n_query, n_lat, n_lon, n_limit, pvars>>

\* The fallback query and the rest of the function.
Fallback(raised, resp) ==
    LET places == IF raised THEN <<>> ELSE resp
    IN /\ n_pc = "fallback"
       /\ n_places' = places
       /\ n_queried' = Append(n_queried,
             Queried(FallbackQuery(n_query, n_lat, n_lon), KindOf(raised, resp)))
       /\ Finish(places)
       /\ UNCHANGED <<n_query, n_lat, n_lon, n_limit, n_variant, pvars>>

\* One call of nearby_search on its own, for the first and the last category's
\* query and every point and limit.
SInit ==
    /\ XIdle
    /\ AIdle
    /\ n_pc = "try"
    /\ on_page = FALSE
    /\ world = Places
    /\ location_blank = FALSE
    /\ max_results \in Limits
    /\ geo \in RefPoints
    /\ cat = 0
    /\ events = <<>>
    /\ shown = <<>>
    /\ n_query \in {Categories[1].q, Categories[Len(Categories)].q}
    /\ n_lat = geo[1]
    /\ n_lon = geo[2]
    /\ n_limit = max_results
    /\ n_variant = 1
    /\ n_places = <<>> /\ n_queried = <<>> /\ n_results = <<>> /\ n_out = <<>>

SNext ==
    \/ /\ \E raised \in BOOLEAN, resp \in Responses(world, n_limit) :
             /\ raised => resp = <<>>
             /\ TryVariant(raised, resp)
       /\ UNCHANGED <<xvars, avars>>
    \/ /\ \E raised \in BOOLEAN, resp \in Responses(world, n_limit) :
             /\ raised => resp = <<>>
             /\ Fallback(raised, resp)
       /\ UNCHANGED <<xvars, avars>>
SpecSearch == SInit /\ [][SNext]_vars

\* --------------------------------------------------- claims on the search

Range(seq) == {seq[i] : i \in 1..Len(seq)}

\* Two entries whose latitude and longitude round to the same 5-decimal pair.
SameRoundedPair(a, b) ==
    /\ (a.lat + 5) \div 10 = (b.lat + 5) \div 10
    /\ (a.lon + 5) \div 10 = (b.lon + 5) \div 10

\* C6: the returned list holds no two entries with the same rounded
\* coordinate pair, and an entry it holds is no farther than any hit of the
\* raw results with its pair.
C6_OnePerKeyNearest ==
    n_pc = "returned" =>
        /\ \A i, j \in 1..Len(n_out) :
              i # j => ~SameRoundedPair(n_out[i], n_out[j])
        /\ \A i \in 1..Len(n_out), k \in 1..Len(n_results) :
              SameRoundedPair(n_out[i], n_results[k]) =>
                  n_out[i].distance_km <= n_results[k].distance_km

\* C6's case: a hit is followed by a nearer one with its pair, and the nearer
\* one is returned.
C6_Witness ==
    /\ n_pc = "returned"
    /\ \E i, j \in 1..Len(n_results) :
          /\ i < j
          /\ SameRoundedPair(n_results[i], n_results[j])
          /\ n_results[i].distance_km > n_results[j].distance_km
          /\ n_results[j] \in Range(n_out)
          /\ n_results[i] \notin Range(n_out)

\* The rounded pairs among the raw results.
PairsOf(results) ==
    {<<(results[i].lat + 5) \div 10, (results[i].lon + 5) \div 10>> :
        i \in 1..Len(results)}

\* C7: the returned list is no longer than limit, is sorted non-decreasing
\* by distance_km, and is the limit nearest of the deduplicated hits: its
\* entries are hits, it has limit entries or one per pair if those are fewer,
\* and a hit whose pair it leaves out is no nearer than any entry it holds.
C7_SortedNearestLimit ==
    n_pc = "returned" =>
        /\ Len(n_out) <= n_limit
        /\ \A i, j \in 1..Len(n_out) :
              i < j => n_out[i].distance_km <= n_out[j].distance_km
        /\ Range(n_out) \subseteq Range(n_results)
        /\ Len(n_out) = SmallerOf(n_limit, Cardinality(PairsOf(n_results)))
        /\ \A k \in 1..Len(n_results) :
              (\A i \in 1..Len(n_out) : ~SameRoundedPair(n_out[i], n_results[k])) =>
                  \A i \in 1..Len(n_out) :
                      n_out[i].distance_km <= n_results[k].distance_km

\* C7's case: more pairs than limit, the first hit not the nearest, and the
\* list cut to limit.
C7_Witness ==
    /\ n_pc = "returned"
    /\ Cardinality(PairsOf(n_results)) > n_limit
    /\ Len(n_out) = n_limit
    /\ n_results[1].distance_km > n_out[1].distance_km

\* The raw results in the order p gives.
Permuted(results, p) == [i \in 1..Len(results) |-> results[p[i]]]

Distances(entries) == [i \in 1..Len(entries) |-> entries[i].distance_km]

\* C8 as claimed: for every permutation of the raw results the step returns
\* the same set of entries.
C8_SameEntriesInAnyOrder ==
    n_pc = "returned" =>
        \A p \in Permutations(1..Len(n_results)) :
            Range(DedupeSortTruncate(Permuted(n_results, p), n_limit)) = Range(n_out)

\* No two different hits of the raw results lie equally far.
NoTies(results) ==
    \A i, j \in 1..Len(results) :
        results[i] # results[j] => results[i].distance_km # results[j].distance_km

\* C8 as amended: for every permutation of the raw results the step returns
\* a list with the same distance_km values in the same order, and the same
\* set of entries when no two different hits lie equally far.
C8_SameDistancesInAnyOrder ==
    n_pc = "returned" =>
        \A p \in Permutations(1..Len(n_results)) :
            LET other == DedupeSortTruncate(Permuted(n_results, p), n_limit)
            IN /\ Distances(other) = Distances(n_out)
               /\ NoTies(n_results) => Range(other) = Range(n_out)

\* C8's case: three hits, one pair hit twice, and an order of them that
\* returns other entries at the same distances.
C8_Witness ==
    /\ n_pc = "returned"
    /\ Len(n_results) = 3
    /\ Cardinality(PairsOf(n_results)) = 2
    /\ \E p \in Permutations(1..Len(n_results)) :
          LET other == DedupeSortTruncate(Permuted(n_results, p), n_limit)
          IN /\ Range(other) # Range(n_out)
             /\ Distances(other) = Distances(n_out)

\* The four query texts in the order of the claim.
VariantOrder ==
    <<[form |-> "<q> near <lat>,<lon>", query |-> n_query, at |-> <<n_lat, n_lon>>],
      [form |-> "<q> near India", query |-> n_query, at |-> <<>>],
      [form |-> "<q> <lat> <lon>", query |-> n_query, at |-> <<n_lat, n_lon>>],
      [form |-> "<q> India", query |-> n_query, at |-> <<>>]>>

\* C9: the variants are queried in the fixed order, the search stops at the
\* first that returns places, the fallback is queried only after the three
\* returned nothing or raised; the returned list is built from the places of
\* that one variant, and is empty when every variant is empty or raises.
C9_FirstVariantWithPlaces ==
    n_pc \in {"try", "fallback", "returned"} =>
        /\ Len(n_queried) <= 4
        /\ \A i \in 1..Len(n_queried) : n_queried[i].text = VariantOrder[i]
        /\ \A i \in 1..(Len(n_queried) - 1) : n_queried[i].kind \in {"empty", "raised"}
        /\ n_pc = "returned" =>
              /\ Len(n_queried) >= 1
              /\ n_queried[Len(n_queried)].kind = "hits" \/ Len(n_queried) = 4
              /\ n_queried[Len(n_queried)].kind = "hits" =>
                    /\ \A i \in 1..Len(n_out) :
                          \E k \in 1..Len(n_places) :
                              /\ n_places[k].ok
                              /\ n_out[i].name = n_places[k].name
                              /\ n_out[i].lat = n_places[k].lat
                              /\ n_out[i].lon = n_places[k].lon
                    /\ (\E k \in 1..Len(n_places) : n_places[k].ok) => n_out # <<>>
              /\ n_queried[Len(n_queried)].kind # "hits" => n_out = <<>>

\* C9's case: the first variant returned nothing, the second returned places,
\* and the list returned holds them.
C9_Witness ==
    /\ n_pc = "returned"
    /\ Len(n_queried) = 2
    /\ n_queried[1].kind = "empty"
    /\ n_queried[2].kind = "hits"
    /\ Len(n_out) = 2

\* ------------------------------------------------- Nearby Services page

\* What the geocoder does for location_hint + ", India".
GeocodeOutcomes ==
    {[kind |-> "raise", point |-> <<>>], [kind |-> "none", point |-> <<>>]}
    \cup {[kind |-> "found", point |-> pt] : pt \in RefPoints}

\* geocode_location: the point found, None (<<>>) when the geocoder raises
\* or finds nothing.
geocode_location(outcome) ==
    IF outcome.kind = "found" THEN outcome.point ELSE <<>>

\* (a slip: break for continue, the loop over the categories left when one
\* has no hits)
StopAfterEmpty(c, hits) == IF hits = <<>> THEN Len(Categories) + 1 ELSE c + 1
\* The category after c: the loop takes the next one with or without hits.
AfterCategory(c, hits) == c + 1

PInit ==
    /\ XIdle
    /\ AIdle
    /\ n_pc = "start"
    /\ on_page = TRUE
    /\ world = PagePlaces
    /\ location_blank \in BOOLEAN
    /\ max_results \in Limits
    /\ geo = <<>>
    /\ cat = 0
    /\ events = <<>>
    /\ shown = <<>>
    /\ SearchIdle

\* The page's run up to its first search: the hint is blank (st.info), the
\* geocoder gives no point (st.error), or the first category is searched.
PageStart(outcome) ==
    /\ n_pc = "start"
    /\ IF location_blank
       THEN /\ n_pc' = "end"
            /\ UNCHANGED <<geo, cat, events, nvars>>
       ELSE /\ geo' = geocode_location(outcome)
            /\ IF geocode_location(outcome) = <<>>
               THEN /\ events' = <<"geocode">>
                    /\ n_pc' = "end"
                    /\ UNCHANGED <<cat, nvars>>
               ELSE /\ events' = <<"geocode", Categories[1].title>>
                    /\ cat' = 1
                    /\ Enter(Categories[1].q, geocode_location(outcome)[1],
                             geocode_location(outcome)[2], max_results)
                    /\ n_pc' = "try"
    /\ UNCHANGED <<on_page, world, location_blank, max_results, shown>>

\* nearby_search returned to the page: the hits or "No results found" are
\* shown, and the loop goes to the next category or the run ends.
ShowCategory ==
    /\ n_pc = "returned"
    /\ on_page
    /\ shown' = Append(shown, IF n_out = <<>> THEN "none" ELSE "hits")
    /\ cat' = AfterCategory(cat, n_out)
    /\ IF AfterCategory(cat, n_out) <= Len(Categories)
       THEN /\ events' = Append(events, Categories[AfterCategory(cat, n_out)].title)
            /\ Enter(Categories[AfterCategory(cat, n_out)].q, n_lat, n_lon, max_results)
            /\ n_pc' = "try"
       ELSE /\ n_pc' = "end"
            /\ UNCHANGED <<events, nvars>>
    /\ UNCHANGED <<on_page, world, location_blank, max_results, geo>>

\* A widget changes and the script runs again from the top.
PageRerun ==
    /\ n_pc = "end"
    /\ on_page
    /\ n_pc' = "start"
    /\ location_blank' \in BOOLEAN
    /\ max_results' \in Limits
    /\ geo' = <<>>
    /\ cat' = 0
    /\ events' = <<>>
    /\ shown' = <<>>
    /\ n_query' = "" /\ n_lat' = 0 /\ n_lon' = 0 /\ n_limit' = 0
    /\ n_variant' = 0
    /\ n_places' = <<>> /\ n_queried' = <<>> /\ n_results' = <<>> /\ n_out' = <<>>
    /\ UNCHANGED <<on_page, world>>

PNext ==
    \/ /\ \E outcome \in GeocodeOutcomes : PageStart(outcome)
       /\ UNCHANGED <<xvars, avars>>
    \/ SNext
    \/ /\ ShowCategory
       /\ UNCHANGED <<xvars, avars>>
    \/ /\ PageRerun
       /\ UNCHANGED <<xvars, avars>>
SpecPage == PInit /\ [][PNext]_vars

IsPrefix(a, b) == Len(a) <= Len(b) /\ a = SubSeq(b, 1, Len(a))

\* The calls of a complete run in the order of the claim.
FullRun ==
    <<"geocode", "Police Stations", "Law Firms / Lawyers", "NGOs / Helplines",
      "Hospitals">>

\* C10: in a run of the Nearby Services page the geocoding comes before every
\* category search, no search is made for a blank hint or when no point is
\* found, and with a point the four categories are searched one at a time
\* in the fixed order, each whatever the earlier ones returned.
C10_GeocodeThenCategoriesInOrder ==
    on_page =>
        /\ IsPrefix(events, FullRun)
        /\ (n_queried # <<>> \/ n_pc \in {"try", "fallback", "returned"}) =>
              /\ ~location_blank
              /\ geo # <<>>
              /\ Len(events) >= 2
        /\ n_pc \in {"try", "fallback", "returned"} =>
              /\ cat \in 1..4
              /\ Len(events) = cat + 1
              /\ Len(shown) = cat - 1
        /\ (n_pc # "start" /\ location_blank) => events = <<>>
        /\ (n_pc = "end" /\ ~location_blank /\ geo = <<>>) => events = <<"geocode">>
        /\ (n_pc = "end" /\ geo # <<>>) => events = FullRun /\ Len(shown) = 4

\* C10's case: a run that searched all four categories though the first two
\* had no hits.
C10_Witness ==
    /\ on_page
    /\ n_pc = "end"
    /\ events = FullRun
    /\ shown = <<"none", "none", "hits", "hits">>

=============================================================================
